---- MODULE Spec2Model ----
(***************************************************************************)
(* The MCP calculator demo (demos/remote-mcp-authless): the JSON-RPC       *)
(* handlers of routes/sse.ts and routes/mcp.ts, the earlier routes/sse     *)
(* variant kept in src/unnamed/part_000, the handleMCP listing in          *)
(* .cursorrules, and the registry of open SSE connections.                 *)
(*                                                                         *)
(* JSON objects are records whose fields are the keys present in the       *)
(* object.  A JavaScript value that may be a string, a number, null or     *)
(* undefined is a record [t, s, n].  A string is a sequence of pieces:     *)
(* literals are one piece, a formatted number is one piece per character.  *)
(* A JavaScript number is an integer count of hundredths, which is exact   *)
(* for every sum, difference, product and quotient of the modelled inputs. *)
(***************************************************************************)
EXTENDS Integers, Sequences, FiniteSets, TLC

\* ------------------------------------------------------------ bounds
\* Connections opened in one behaviour (the counter's cap).
MaxConn == 2
\* Date.now() returns a value in 1..MaxTime.
MaxTime == 2

\* ------------------------------------------------------- JS values
Undefined == [t |-> "undefined", s |-> <<>>, n |-> 0]
Null == [t |-> "null", s |-> <<>>, n |-> 0]
NumberVal(k) == [t |-> "number", s |-> <<>>, n |-> k]
StringVal(pieces) == [t |-> "string", s |-> pieces, n |-> 0]

\* JavaScript truthiness, as `x || y` and `!x` read it.
Truthy(v) ==
  CASE v.t = "undefined" -> FALSE
    [] v.t = "null" -> FALSE
    [] v.t = "number" -> v.n # 0
    [] v.t = "string" -> v.s # <<>>

\* `x || y`
OrElse(x, y) == IF Truthy(x) THEN x ELSE y

\* -------------------------------------------- numbers and String()
Digit(d) == <<"0", "1", "2", "3", "4", "5", "6", "7", "8", "9">>[d + 1]

RECURSIVE Dec(_)
\* The decimal digits of a natural number, as a template literal prints it.
Dec(k) == IF k < 10 THEN <<Digit(k)>> ELSE Dec(k \div 10) \o <<Digit(k % 10)>>

Abs(x) == IF x < 0 THEN -x ELSE x

\* A JSON integer k as a JavaScript number (hundredths).
FromInt(k) == k * 100

\* String(x) of a number with at most two decimals: sign, integer part, and
\* the fraction without trailing zeros; -0 prints as "0".
String(x) ==
  LET m == Abs(x)
      fp == m % 100
      frac == IF fp = 0 THEN <<>>
              ELSE IF fp % 10 = 0 THEN <<".", Digit(fp \div 10)>>
              ELSE <<".", Digit(fp \div 10), Digit(fp % 10)>>
  IN (IF x < 0 THEN <<"-">> ELSE <<>>) \o Dec(m \div 100) \o frac

\* The binary operators on numbers in hundredths.
Plus(x, y) == x + y
Minus(x, y) == x - y
Times(x, y) == (x * y) \div 100
\* x / y for y # 0: the quotient toward zero scaled back to hundredths.
Over(x, y) ==
  LET q == (Abs(x) * 100) \div Abs(y)
  IN IF (x < 0) # (y < 0) THEN -q ELSE q

\* ------------------------------------------------------- requests
\* A key that is absent from a request body.
Missing == "(missing)"

\* The JSON numbers sent as a and b.  The divisors have only the prime
\* factors 2 and 5, so each quotient has at most two decimals.
Numbers == {-2, 0, 1, 4}

Operations == {"add", "subtract", "multiply", "divide", "modulo", Missing}
ToolNames == {"add", "calculate", "sqrt", Missing}
Methods == {"initialize", "initialized", "tools/list", "tools/call", "ping", Missing}
Ids == {Undefined, Null, NumberVal(0), NumberVal(7), StringVal(<<"a">>), StringVal(<<>>)}

NoArguments == [present |-> FALSE, operation |-> Missing, a |-> 0, b |-> 0]
Arguments(operation, a, b) ==
  [present |-> TRUE, operation |-> operation, a |-> FromInt(a), b |-> FromInt(b)]

NoParams == [present |-> FALSE, name |-> Missing, arguments |-> NoArguments]
Params(name, arguments) == [present |-> TRUE, name |-> name, arguments |-> arguments]

\* The params of the tools/call requests: absent, without arguments, add with
\* two numbers, calculate with an operation and two numbers, another tool,
\* and multiply 4, 7.
CallParams ==
  {NoParams}
  \cup {Params(nm, NoArguments) : nm \in ToolNames}
  \cup {Params("add", Arguments(Missing, a, b)) : a \in Numbers, b \in Numbers}
  \cup {Params("calculate", Arguments(o, ab[1], ab[2])) :
          o \in Operations, ab \in Numbers \X Numbers}
  \cup {Params("sqrt", Arguments(Missing, 4, 0)),
        Params("calculate", Arguments("multiply", 4, 7))}

\* The request bodies (req.body without connectionId).
Requests ==
  {[method |-> m, params |-> NoParams, id |-> i] :
     m \in Methods \ {"tools/call"}, i \in Ids}
  \cup {[method |-> "tools/call", params |-> p, id |-> i] : p \in CallParams, i \in Ids}

\* ------------------------------------------------- response bodies
\* {} : a record needs a field, so the empty object carries a marker.
EmptyObject == [empty |-> TRUE]

\* The tools array of the tools/list replies.
ToolList ==
  << [name |-> "add",
      description |-> "Add two numbers",
      inputSchema |-> [type |-> "object",
                       properties |-> [a |-> [type |-> "number"],
                                       b |-> [type |-> "number"]],
                       required |-> <<"a", "b">>]],
     [name |-> "calculate",
      description |-> "Perform basic arithmetic operations",
      inputSchema |-> [type |-> "object",
                       properties |-> [operation |-> [type |-> "string",
                                                      enum |-> <<"add", "subtract",
                                                                 "multiply", "divide">>],
                                       a |-> [type |-> "number"],
                                       b |-> [type |-> "number"]],
                       required |-> <<"operation", "a", "b">>]] >>

\* The result of initialize; capabilities is the set of declared keys, each {}.
InitializeResult(capabilities) ==
  [protocolVersion |-> "2024-11-05",
   capabilities |-> capabilities,
   serverInfo |-> [name |-> "calculator-server", version |-> "1.0.0"]]

\* { content: [{ type: "text", text }] }
Content(text) == [content |-> <<[type |-> "text", text |-> text]>>]

DivideByZeroText == <<"Error: Cannot divide by zero">>

\* { jsonrpc: "2.0", id, result } as JSON.stringify writes it: a key whose
\* value is undefined is left out.
RpcResult(id, result) ==
  IF id.t = "undefined" THEN [jsonrpc |-> "2.0", result |-> result]
  ELSE [jsonrpc |-> "2.0", id |-> id, result |-> result]

\* { jsonrpc: "2.0", id, error: { code, message } }
RpcError(id, code, message) ==
  IF id.t = "undefined"
  THEN [jsonrpc |-> "2.0", error |-> [code |-> code, message |-> message]]
  ELSE [jsonrpc |-> "2.0", id |-> id, error |-> [code |-> code, message |-> message]]

\* { error: "<text>" } : the error is a bare string.
PlainError(text) == [error |-> [string |-> text]]

\* { status: "<text>" }
Ack(text) == [status |-> text]

\* What one handler run does: the HTTP status and body written to the
\* triggering request, the frames written to SSE responses, and the
\* arithmetic operator it evaluated ("none" when it evaluated none).
Effect(status, body, pushes, computed) ==
  [status |-> status, body |-> body, pushes |-> pushes, computed |-> computed]

\* `const { name, arguments: args } = params`, `args.a` and
\* `const { operation, a, b } = args` throw a TypeError on undefined.
Throws(req) ==
  /\ req.method = "tools/call"
  /\ \/ ~req.params.present
     \/ /\ req.params.name \in {"add", "calculate"}
        /\ ~req.params.arguments.present

\* --------------------------------------- routes/sse.ts, POST /sse
\* The switch on operation: the value, or the early reply of a branch.
calculateHTTP(operation, a, b) ==
  CASE operation = "add" -> [out |-> "value", value |-> Plus(a, b), computed |-> "add"]
    [] operation = "subtract" -> [out |-> "value", value |-> Minus(a, b), computed |-> "subtract"]
    [] operation = "multiply" -> [out |-> "value", value |-> Times(a, b), computed |-> "multiply"]
    [] operation = "divide" ->
         IF b = 0 THEN [out |-> "divzero", value |-> 0, computed |-> "none"]
         ELSE [out |-> "value", value |-> Over(a, b), computed |-> "divide"]
    [] OTHER -> [out |-> "unknown", value |-> 0, computed |-> "none"]

\* The body written when the try block throws.
catchHTTP(req) == RpcError(OrElse(req.id, Null), -32603, "Internal server error")

handleHTTPRequest(req) ==
  LET id == req.id
      name == req.params.name
      args == req.params.arguments
      c == calculateHTTP(args.operation, args.a, args.b)
  IN
  IF Throws(req) THEN Effect(500, catchHTTP(req), <<>>, "none")
  ELSE CASE req.method = "initialize" ->
              Effect(200, RpcResult(id, InitializeResult({"tools", "logging"})), <<>>, "none")
         [] req.method = "initialized" ->
              Effect(200, RpcResult(id, EmptyObject), <<>>, "none")
         [] req.method = "tools/list" ->
              Effect(200, RpcResult(id, [tools |-> ToolList]), <<>>, "none")
         [] req.method = "tools/call" ->
              IF name = "add"
              THEN Effect(200, RpcResult(id, Content(String(Plus(args.a, args.b)))), <<>>, "add")
              ELSE IF name = "calculate"
              THEN CASE c.out = "divzero" ->
                          Effect(200, RpcResult(id, Content(DivideByZeroText)), <<>>, "none")
                     [] c.out = "unknown" ->
                          Effect(200, RpcError(id, -32602, "Unknown operation"), <<>>, "none")
                     [] OTHER ->
                          Effect(200, RpcResult(id, Content(String(c.value))), <<>>, c.computed)
              ELSE Effect(200, RpcError(id, -32602, "Unknown tool"), <<>>, "none")
         [] OTHER ->
              Effect(200, RpcError(id, -32601, "Unknown method"), <<>>, "none")

\* ------------------------------------------ routes/mcp.ts, POST /mcp
\* calculateMCP with the operands of subtract exchanged.
calculateMCPSwapped(operation, a, b) ==
  CASE operation = "add" -> [out |-> "value", value |-> Plus(a, b), computed |-> "add"]
    [] operation = "subtract" -> [out |-> "value", value |-> Minus(b, a), computed |-> "subtract"]
    [] operation = "multiply" -> [out |-> "value", value |-> Times(a, b), computed |-> "multiply"]
    [] operation = "divide" ->
         IF b = 0 THEN [out |-> "divzero", value |-> 0, computed |-> "none"]
         ELSE [out |-> "value", value |-> Over(a, b), computed |-> "divide"]
    [] OTHER -> [out |-> "unknown", value |-> 0, computed |-> "none"]

calculateMCP(operation, a, b) ==
  CASE operation = "add" -> [out |-> "value", value |-> Plus(a, b), computed |-> "add"]
    [] operation = "subtract" -> [out |-> "value", value |-> Minus(a, b), computed |-> "subtract"]
    [] operation = "multiply" -> [out |-> "value", value |-> Times(a, b), computed |-> "multiply"]
    [] operation = "divide" ->
         IF b = 0 THEN [out |-> "divzero", value |-> 0, computed |-> "none"]
         ELSE [out |-> "value", value |-> Over(a, b), computed |-> "divide"]
    [] OTHER -> [out |-> "unknown", value |-> 0, computed |-> "none"]

handleMCP(req) ==
  LET name == req.params.name
      args == req.params.arguments
      c == calculateMCP(args.operation, args.a, args.b)
  IN
  IF Throws(req) THEN Effect(500, PlainError("Internal server error"), <<>>, "none")
  ELSE IF req.method = "tools/list" THEN Effect(200, [tools |-> ToolList], <<>>, "none")
  ELSE IF req.method = "tools/call"
  THEN IF name = "add"
       THEN Effect(200, Content(String(Plus(args.a, args.b))), <<>>, "add")
       ELSE IF name = "calculate"
       THEN CASE c.out = "divzero" -> Effect(200, Content(DivideByZeroText), <<>>, "none")
              [] c.out = "unknown" -> Effect(400, PlainError("Unknown operation"), <<>>, "none")
              [] OTHER -> Effect(200, Content(String(c.value)), <<>>, c.computed)
       ELSE Effect(400, PlainError("Unknown tool"), <<>>, "none")
  ELSE Effect(400, PlainError("Unknown method"), <<>>, "none")

\* ------------------------------- .cursorrules, the handleMCP listing
calculateRules(operation, a, b) ==
  CASE operation = "add" -> [out |-> "value", value |-> Plus(a, b), computed |-> "add"]
    [] operation = "subtract" -> [out |-> "value", value |-> Minus(a, b), computed |-> "subtract"]
    [] operation = "multiply" -> [out |-> "value", value |-> Times(a, b), computed |-> "multiply"]
    [] operation = "divide" ->
         IF b = 0 THEN [out |-> "divzero", value |-> 0, computed |-> "none"]
         ELSE [out |-> "value", value |-> Over(a, b), computed |-> "divide"]
    [] OTHER -> [out |-> "unknown", value |-> 0, computed |-> "none"]

handleMCPRules(req) ==
  LET id == req.id
      name == req.params.name
      args == req.params.arguments
      c == calculateRules(args.operation, args.a, args.b)
  IN
  IF Throws(req)
  THEN Effect(500, RpcError(OrElse(req.id, Null), -32603, "Internal server error"), <<>>, "none")
  ELSE CASE req.method = "initialize" ->
              Effect(200, RpcResult(id, InitializeResult({"tools"})), <<>>, "none")
         [] req.method = "initialized" ->
              Effect(200, RpcResult(id, EmptyObject), <<>>, "none")
         [] req.method = "tools/list" ->
              Effect(200, RpcResult(id, [tools |-> ToolList]), <<>>, "none")
         [] req.method = "tools/call" ->
              IF name = "add"
              THEN Effect(200, RpcResult(id, Content(String(Plus(args.a, args.b)))), <<>>, "add")
              ELSE IF name = "calculate"
              THEN CASE c.out = "divzero" ->
                          Effect(200, RpcResult(id, Content(DivideByZeroText)), <<>>, "none")
                     [] c.out = "unknown" ->
                          Effect(200, RpcError(id, -32602, "Unknown operation"), <<>>, "none")
                     [] OTHER ->
                          Effect(200, RpcResult(id, Content(String(c.value))), <<>>, c.computed)
              ELSE Effect(200, RpcError(id, -32602, "Unknown tool"), <<>>, "none")
         [] OTHER ->
              Effect(200, RpcError(id, -32601, "Unknown method"), <<>>, "none")

\* ------------------------------------------------ Map<string, ...>
\* A Map is the sequence of its entries [id, res] in insertion order; res is
\* the number of the SSE response stream the entry holds.
MapHas(map, key) ==
  /\ key.t = "string"
  /\ \E i \in 1..Len(map) : map[i].id = key.s

\* get() answering with the entry inserted last, whatever the key.
MapGetLatest(map, key) == map[Len(map)]

MapGet(map, key) == map[CHOOSE i \in 1..Len(map) : map[i].id = key.s]

\* set() on a Map that holds one entry only: the new one replaces the rest.
MapSetAlone(map, id, res) == <<[id |-> id, res |-> res]>>

\* set() keeps the position of a key that is present and appends a new one.
MapSet(map, id, res) ==
  IF \E i \in 1..Len(map) : map[i].id = id
  THEN [i \in 1..Len(map) |-> IF map[i].id = id THEN [id |-> id, res |-> res] ELSE map[i]]
  ELSE Append(map, [id |-> id, res |-> res])

\* delete() taking the entry inserted last when the key is absent.
MapDeleteOrLatest(map, id) ==
  IF \E i \in 1..Len(map) : map[i].id = id
  THEN SelectSeq(map, LAMBDA e : e.id # id)
  ELSE SubSeq(map, 1, Len(map) - 1)

MapDelete(map, id) == SelectSeq(map, LAMBDA e : e.id # id)

\* shift() in place of pop(): the key inserted first.
FirstKey(map) == IF map = <<>> THEN Undefined ELSE StringVal(map[1].id)

\* Array.from(map.keys()).pop(): the key inserted last, undefined when empty.
LastKey(map) == IF map = <<>> THEN Undefined ELSE StringVal(map[Len(map)].id)

\* `data: ${JSON.stringify(message)}\n\n`
DataFrame(message) == [event |-> "data", data |-> message]
\* `:ping\n\n`
PingComment == [event |-> "comment", text |-> "ping"]

\* A write that never reaches the stream.
PushNothing(res, frame) == <<>>

\* One write of a frame to SSE response number res.
Push(res, frame) == <<[res |-> res, frame |-> frame]>>

\* ---------------------------------- routes/sse.ts, POST /sse/message
calculateSSE(operation, a, b) ==
  CASE operation = "add" -> [out |-> "value", value |-> Plus(a, b), computed |-> "add"]
    [] operation = "subtract" -> [out |-> "value", value |-> Minus(a, b), computed |-> "subtract"]
    [] operation = "multiply" -> [out |-> "value", value |-> Times(a, b), computed |-> "multiply"]
    [] operation = "divide" ->
         IF b = 0 THEN [out |-> "divzero", value |-> 0, computed |-> "none"]
         ELSE [out |-> "value", value |-> Over(a, b), computed |-> "divide"]
    [] OTHER -> [out |-> "unknown", value |-> 0, computed |-> "none"]

\* targetId falling back to the latest connection for an id that is not
\* registered as well.
targetIdOrLatest(connectionId, map) ==
  IF MapHas(map, connectionId) THEN connectionId ELSE LastKey(map)

\* targetId that reads no connectionId: always the latest connection.
targetIdLatest(connectionId, map) == LastKey(map)

\* `connectionId || Array.from(connections.keys()).pop()`
targetId(connectionId, map) == OrElse(connectionId, LastKey(map))

handleSSEMessage(req, connectionId, map) ==
  LET target == targetId(connectionId, map)
      id == req.id
      name == req.params.name
      args == req.params.arguments
      c == calculateSSE(args.operation, args.a, args.b)
      sendMessage(message) == Push(MapGet(map, target).res, DataFrame(message))
  IN
  IF ~MapHas(map, target)
  THEN Effect(400, PlainError("No active SSE connection found"), <<>>, "none")
  ELSE IF Throws(req)
  THEN Effect(500, PlainError("Internal server error"), <<>>, "none")
  ELSE CASE req.method = "initialize" ->
              Effect(200, Ack("message sent"),
                     sendMessage(RpcResult(id, InitializeResult({"tools", "logging"}))), "none")
         [] req.method = "initialized" ->
              Effect(200, Ack("message sent"), sendMessage(RpcResult(id, EmptyObject)), "none")
         [] req.method = "tools/list" ->
              Effect(200, Ack("message sent"),
                     sendMessage(RpcResult(id, [tools |-> ToolList])), "none")
         [] req.method = "tools/call" ->
              IF name = "add"
              THEN Effect(200, Ack("message sent"),
                          sendMessage(RpcResult(id, Content(String(Plus(args.a, args.b))))), "add")
              ELSE IF name = "calculate"
              THEN CASE c.out = "divzero" ->
                          Effect(200, Ack("sent"),
                                 sendMessage(RpcResult(id, Content(DivideByZeroText))), "none")
                     [] c.out = "unknown" ->
                          Effect(200, Ack("sent"),
                                 sendMessage(RpcError(id, -32602, "Unknown operation")), "none")
                     [] OTHER ->
                          Effect(200, Ack("message sent"),
                                 sendMessage(RpcResult(id, Content(String(c.value)))), c.computed)
              ELSE Effect(200, Ack("message sent"),
                          sendMessage(RpcError(id, -32602, "Unknown tool")), "none")
         [] OTHER ->
              Effect(200, Ack("message sent"),
                     sendMessage(RpcError(id, -32601, "Unknown method")), "none")

\* ------------------------- src/unnamed/part_000, POST /sse/message
calculatePart000(operation, a, b) ==
  CASE operation = "add" -> [out |-> "value", value |-> Plus(a, b), computed |-> "add"]
    [] operation = "subtract" -> [out |-> "value", value |-> Minus(a, b), computed |-> "subtract"]
    [] operation = "multiply" -> [out |-> "value", value |-> Times(a, b), computed |-> "multiply"]
    [] operation = "divide" ->
         IF b = 0 THEN [out |-> "divzero", value |-> 0, computed |-> "none"]
         ELSE [out |-> "value", value |-> Over(a, b), computed |-> "divide"]
    [] OTHER -> [out |-> "unknown", value |-> 0, computed |-> "none"]

\* `req_${Date.now()}`
RequestId(now) == StringVal(<<"req_">> \o Dec(now))

\* { type: "response", id, result }
TypedResponse(now, result) == [type |-> "response", id |-> RequestId(now), result |-> result]
\* { type: "error", id, error: { message } }
TypedError(now, message) ==
  [type |-> "error", id |-> RequestId(now), error |-> [message |-> message]]

\* The connection a message goes to: the given one, else the key inserted last.
targetConnectionId(connectionId, map) ==
  IF ~Truthy(connectionId) /\ Len(map) > 0 THEN LastKey(map) ELSE connectionId

handleSSEMessagePart000(req, connectionId, map, now) ==
  LET target == targetConnectionId(connectionId, map)
      name == req.params.name
      args == req.params.arguments
      c == calculatePart000(args.operation, args.a, args.b)
      write(message) == Push(MapGet(map, target).res, DataFrame(message))
  IN
  IF ~Truthy(target) \/ ~MapHas(map, target)
  THEN Effect(400, PlainError("No active SSE connection found. Connect to /sse first."),
              <<>>, "none")
  ELSE IF Throws(req)
  THEN Effect(500, PlainError("Internal server error"), <<>>, "none")
  ELSE IF req.method = "tools/list"
  THEN Effect(200, Ack("tools list sent via SSE"),
              write(TypedResponse(now, [tools |-> ToolList])), "none")
  ELSE IF req.method = "tools/call"
  THEN IF name = "add"
       THEN Effect(200, Ack("tool call result sent via SSE"),
                   write(TypedResponse(now, Content(String(Plus(args.a, args.b))))), "add")
       ELSE IF name = "calculate"
       THEN CASE c.out = "divzero" ->
                   Effect(200, Ack("tool call result sent via SSE"),
                          write(TypedResponse(now, Content(DivideByZeroText))), "none")
              [] c.out = "unknown" ->
                   Effect(200, Ack("tool call result sent via SSE"),
                          write(TypedError(now, "Unknown operation")), "none")
              [] OTHER ->
                   Effect(200, Ack("tool call result sent via SSE"),
                          write(TypedResponse(now, Content(String(c.value)))), c.computed)
       ELSE Effect(200, Ack("tool call result sent via SSE"),
                   write(TypedError(now, "Unknown tool")), "none")
  ELSE Effect(200, Ack("error sent via SSE"), write(TypedError(now, "Unknown method")), "none")

\* ------------------------------------- the responses of one handler run
\* The branch of the switch on operation falls through to the code after
\* the switch.
NeverReturned(c) == FALSE

\* The branch of the switch on operation ends the handler: `return` after the
\* reply to a divide by zero and to an unknown operation.
Returned(c) == c.out \in {"divzero", "unknown"}

\* handleHTTPRequest: the status of each res.json call of the run, in order.
responsesHTTP(req) ==
  LET args == req.params.arguments
      c == calculateHTTP(args.operation, args.a, args.b)
  IN
  IF Throws(req) THEN <<500>>
  ELSE IF req.method = "tools/call" /\ req.params.name = "calculate"
  THEN (IF c.out \in {"divzero", "unknown"} THEN <<200>> ELSE <<>>)
       \o (IF Returned(c) THEN <<>> ELSE <<200>>)
  ELSE <<200>>

\* handleMCP of routes/mcp.ts: the status of each res.json call of the run.
responsesMCP(req) ==
  LET args == req.params.arguments
      c == calculateMCP(args.operation, args.a, args.b)
  IN
  IF Throws(req) THEN <<500>>
  ELSE IF req.method = "tools/list" THEN <<200>>
  ELSE IF req.method = "tools/call"
  THEN IF req.params.name = "add" THEN <<200>>
       ELSE IF req.params.name = "calculate"
       THEN (CASE c.out = "divzero" -> <<200>>
               [] c.out = "unknown" -> <<400>>
               [] OTHER -> <<>>)
            \o (IF Returned(c) THEN <<>> ELSE <<200>>)
       ELSE <<400>>
  ELSE <<400>>

\* handleSSEMessage of routes/sse.ts: the status of each response written to
\* the POST itself; the reply after the switch is skipped by a return.
responsesSSE(req, connectionId, map) ==
  LET args == req.params.arguments
      c == calculateSSE(args.operation, args.a, args.b)
      calculate == req.method = "tools/call" /\ req.params.name = "calculate"
  IN
  IF ~MapHas(map, targetId(connectionId, map)) THEN <<400>>
  ELSE IF Throws(req) THEN <<500>>
  ELSE (IF calculate /\ c.out \in {"divzero", "unknown"} THEN <<200>> ELSE <<>>)
       \o (IF calculate /\ Returned(c) THEN <<>> ELSE <<200>>)

\* handleSSEMessage of routes/sse.ts: the writes of one run in the order the
\* code makes them; every sendMessage call stands before the res.json of its
\* branch, and the 400 and the catch reply without a sendMessage.
stepsSSE(req, connectionId, map) ==
  IF ~MapHas(map, targetId(connectionId, map)) THEN <<"reply 400">>
  ELSE IF Throws(req) THEN <<"reply 500">>
  ELSE <<"push", "reply 200">>

\* handleSSEMessage of part_000: sseResponse.write stands before res.json.
stepsPart000(req, connectionId, map) ==
  LET target == targetConnectionId(connectionId, map)
  IN IF ~Truthy(target) \/ ~MapHas(map, target) THEN <<"reply 400">>
     ELSE IF Throws(req) THEN <<"reply 500">>
     ELSE <<"push", "reply 200">>

\* ------------------------------------------------------------ state
VARIABLES
  variant,              \* which routes/sse module the process loaded
  connections,          \* routes/sse.ts: the Map of open connections
  connectionIdCounter,  \* routes/sse.ts
  activeConnections,    \* part_000: the Map of open connections
  connectionCounter,    \* part_000
  timers,               \* the response numbers whose setInterval is active
  fired,                \* <<res, event>>: request events already emitted
  chan,                 \* chan[res]: the frames written to SSE response res
  last                  \* the latest run of a POST handler and what it did

vars == <<variant, connections, connectionIdCounter, activeConnections,
          connectionCounter, timers, fired, chan, last>>

Variants == {"sse.ts", "part_000"}
Streams == 1..MaxConn
Clock == 1..MaxTime

NoBody == [none |-> TRUE]
NoCall ==
  [handler |-> "none",
   req |-> [method |-> Missing, params |-> NoParams, id |-> Undefined],
   connectionId |-> Undefined, now |-> 0,
   status |-> 0, body |-> NoBody, pushes |-> <<>>, computed |-> "none"]

\* The record of one handler run.
Call(handler, req, connectionId, now, e) ==
  [handler |-> handler, req |-> req, connectionId |-> connectionId, now |-> now,
   status |-> e.status, body |-> e.body, pushes |-> e.pushes, computed |-> e.computed]

\* A write that puts the frame at the head of what the stream holds.
WriteFirst(ch, pushes) ==
  IF pushes = <<>> THEN ch
  ELSE [ch EXCEPT ![pushes[1].res] = <<pushes[1].frame>> \o @]

RECURSIVE Write(_, _)
\* res.write of each pushed frame, in order.
Write(ch, pushes) ==
  IF pushes = <<>> THEN ch
  ELSE Write([ch EXCEPT ![Head(pushes).res] = Append(@, Head(pushes).frame)], Tail(pushes))

Init ==
  /\ variant \in Variants
  /\ connections = <<>>
  /\ connectionIdCounter = 0
  /\ activeConnections = <<>>
  /\ connectionCounter = 0
  /\ timers = {}
  /\ fired = {}
  /\ chan = [r \in Streams |-> <<>>]
  /\ last = NoCall

\* `conn_${++connectionIdCounter}`
ConnectionKey(counter) == <<"conn_">> \o Dec(counter)
\* The id built from the time alone: `conn_${Date.now()}`.
ConnectionKeyTimeOnly(counter, now) == <<"conn_">> \o Dec(now)

\* `conn_${++connectionCounter}_${Date.now()}`
ConnectionKeyPart000(counter, now) == <<"conn_">> \o Dec(counter) \o <<"_">> \o Dec(now)

\* The connected notice part_000 writes first.
ConnectedNotice(id) ==
  [type |-> "connection", status |-> "connected", connectionId |-> StringVal(id),
   message |-> "MCP Calculator Server connected. Send tool calls to /sse/message with your connectionId."]

\* GET /sse that registers the connection and starts no interval.
handleSSENoInterval ==
  /\ variant = "sse.ts"
  /\ connectionIdCounter < MaxConn
  /\ connectionIdCounter' = connectionIdCounter + 1
  /\ connections' = MapSet(connections, ConnectionKey(connectionIdCounter'),
                           connectionIdCounter')
  /\ UNCHANGED <<variant, activeConnections, connectionCounter, timers, fired, chan, last>>

\* routes/sse.ts, GET /sse: count, register, start the ping interval.
handleSSE ==
  /\ variant = "sse.ts"
  /\ connectionIdCounter < MaxConn
  /\ connectionIdCounter' = connectionIdCounter + 1
  /\ connections' = MapSet(connections, ConnectionKey(connectionIdCounter'),
                           connectionIdCounter')
  /\ timers' = timers \cup {connectionIdCounter'}
  /\ UNCHANGED <<variant, activeConnections, connectionCounter, fired, chan, last>>

\* The "close" listener without its clearInterval.
closeKeepsTimer(res) ==
  /\ variant = "sse.ts"
  /\ res <= connectionIdCounter
  /\ <<res, "close">> \notin fired
  /\ fired' = fired \cup {<<res, "close">>}
  /\ connections' = MapDelete(connections, ConnectionKey(res))
  /\ UNCHANGED <<variant, connectionIdCounter, activeConnections, connectionCounter,
                 timers, chan, last>>

\* routes/sse.ts, the "close" listener of connection res.
close(res) ==
  /\ variant = "sse.ts"
  /\ res <= connectionIdCounter
  /\ <<res, "close">> \notin fired
  /\ fired' = fired \cup {<<res, "close">>}
  /\ timers' = timers \ {res}
  /\ connections' = MapDelete(connections, ConnectionKey(res))
  /\ UNCHANGED <<variant, connectionIdCounter, activeConnections, connectionCounter,
                 chan, last>>

\* part_000, GET /sse: count, register, write the connected notice, start
\* the ping interval.
handleSSEPart000(now) ==
  /\ variant = "part_000"
  /\ connectionCounter < MaxConn
  /\ connectionCounter' = connectionCounter + 1
  /\ LET id == ConnectionKeyPart000(connectionCounter', now)
     IN /\ activeConnections' = MapSet(activeConnections, id, connectionCounter')
        /\ chan' = [chan EXCEPT ![connectionCounter'] =
                      Append(@, DataFrame(ConnectedNotice(id)))]
  /\ timers' = timers \cup {connectionCounter'}
  /\ UNCHANGED <<variant, connections, connectionIdCounter, fired, last>>

\* The id part_000 gave connection res: the one its connected notice carries.
KeyOf(res) == chan[res][1].data.connectionId.s

\* part_000, cleanup: the listener of both "close" and "aborted".
cleanup(res, event) ==
  /\ variant = "part_000"
  /\ res <= connectionCounter
  /\ <<res, event>> \notin fired
  /\ fired' = fired \cup {<<res, event>>}
  /\ timers' = timers \ {res}
  /\ activeConnections' = MapDelete(activeConnections, KeyOf(res))
  /\ UNCHANGED <<variant, connections, connectionIdCounter, connectionCounter,
                 chan, last>>

\* A well-formed id that neither counter ever reaches: both start at 1.
NeverAssigned == <<"conn_", "0">>

\* The connectionId values a client sends: none, the empty string, every id
\* the loaded module has assigned so far (open or closed), and one id that
\* was never assigned.
ConnectionIds ==
  {Undefined, StringVal(<<>>), StringVal(NeverAssigned)}
  \cup (IF variant = "sse.ts"
        THEN {StringVal(ConnectionKey(k)) : k \in 1..connectionIdCounter}
        ELSE {StringVal(KeyOf(k)) : k \in 1..connectionCounter})

\* POST handled by handleHTTPRequest (routes/sse.ts).
PostHTTP(req) ==
  /\ last' = Call("handleHTTPRequest", req, Undefined, 0, handleHTTPRequest(req))
  /\ UNCHANGED <<variant, connections, connectionIdCounter, activeConnections,
                 connectionCounter, timers, fired, chan>>

\* POST /mcp (routes/mcp.ts).
PostMCP(req) ==
  /\ last' = Call("handleMCP", req, Undefined, 0, handleMCP(req))
  /\ UNCHANGED <<variant, connections, connectionIdCounter, activeConnections,
                 connectionCounter, timers, fired, chan>>

\* POST /mcp as listed in .cursorrules.
PostMCPRules(req) ==
  /\ last' = Call("handleMCPRules", req, Undefined, 0, handleMCPRules(req))
  /\ UNCHANGED <<variant, connections, connectionIdCounter, activeConnections,
                 connectionCounter, timers, fired, chan>>

\* POST /sse/message that also moves the connection it used to the end of
\* the Map, as a registry ordered by use would.
PostMessageTouching(req, connectionId) ==
  /\ variant = "sse.ts"
  /\ LET e == handleSSEMessage(req, connectionId, connections)
         used == targetId(connectionId, connections)
     IN /\ last' = Call("handleSSEMessage", req, connectionId, 0, e)
        /\ chan' = Write(chan, e.pushes)
        /\ connections' =
             IF e.pushes = <<>> THEN connections
             ELSE Append(MapDelete(connections, used.s), MapGet(connections, used))
  /\ UNCHANGED <<variant, connectionIdCounter, activeConnections,
                 connectionCounter, timers, fired>>

\* POST /sse/message (routes/sse.ts).
PostMessage(req, connectionId) ==
  /\ variant = "sse.ts"
  /\ LET e == handleSSEMessage(req, connectionId, connections)
     IN /\ last' = Call("handleSSEMessage", req, connectionId, 0, e)
        /\ chan' = Write(chan, e.pushes)
  /\ UNCHANGED <<variant, connections, connectionIdCounter, activeConnections,
                 connectionCounter, timers, fired>>

\* POST /sse/message of part_000 writing to the stream the id was assigned
\* to, registered or not.
PostMessageToAssigned(req, connectionId, now) ==
  /\ variant = "part_000"
  /\ LET holder == {res \in 1..connectionCounter : StringVal(KeyOf(res)) = connectionId}
         map == IF holder = {} THEN activeConnections
                ELSE MapSet(activeConnections, connectionId.s, CHOOSE res \in holder : TRUE)
         e == handleSSEMessagePart000(req, connectionId, map, now)
     IN /\ last' = Call("handleSSEMessagePart000", req, connectionId, now, e)
        /\ chan' = Write(chan, e.pushes)
  /\ UNCHANGED <<variant, connections, connectionIdCounter, activeConnections,
                 connectionCounter, timers, fired>>

\* POST /sse/message (part_000).
PostMessagePart000(req, connectionId, now) ==
  /\ variant = "part_000"
  /\ LET e == handleSSEMessagePart000(req, connectionId, activeConnections, now)
     IN /\ last' = Call("handleSSEMessagePart000", req, connectionId, now, e)
        /\ chan' = Write(chan, e.pushes)
  /\ UNCHANGED <<variant, connections, connectionIdCounter, activeConnections,
                 connectionCounter, timers, fired>>

\* No POST has been handled yet.
Idle == last.handler = "none"

\* One request against any registry the process can have built: streams are
\* opened and closed, then one POST is handled by one of the handlers.  An
\* aborted stream leaves the registry as a closed one does; here every stream
\* ends by its close event.
NextDispatch ==
  \/ Idle /\ handleSSE
  \/ Idle /\ \E res \in Streams : close(res)
  \/ Idle /\ \E now \in Clock : handleSSEPart000(now)
  \/ Idle /\ \E res \in Streams : cleanup(res, "close")
  \/ Idle /\ \E req \in Requests : PostHTTP(req)
  \/ Idle /\ \E req \in Requests : PostMCP(req)
  \/ Idle /\ \E req \in Requests : PostMCPRules(req)
  \/ Idle /\ \E req \in Requests, connectionId \in ConnectionIds :
               PostMessage(req, connectionId)
  \/ Idle /\ \E req \in Requests, connectionId \in ConnectionIds, now \in Clock :
               PostMessagePart000(req, connectionId, now)

SpecDispatch == Init /\ [][NextDispatch]_vars

\* ------------------------------------------------- the whole server
\* Frames written by pings and routed messages in one behaviour.
MaxFrames == 3

\* Three digits, as toISOString prints the milliseconds.
Pad3(k) == <<Digit(k \div 100), Digit((k \div 10) % 10), Digit(k % 10)>>

\* new Date().toISOString() within the first second of the epoch.
ToISOString(now) == <<"1970-01-01T00:00:00.">> \o Pad3(now) \o <<"Z">>

\* { type: "ping", timestamp } : the keep-alive message of part_000.
PingMessage(now) == [type |-> "ping", timestamp |-> StringVal(ToISOString(now))]

\* routes/sse.ts, one run of the setInterval callback of connection res.
pingInterval(res) ==
  /\ variant = "sse.ts"
  /\ res \in timers
  /\ chan' = IF MapHas(connections, StringVal(ConnectionKey(res)))
             THEN [chan EXCEPT ![res] = Append(@, PingComment)]
             ELSE chan
  /\ UNCHANGED <<variant, connections, connectionIdCounter, activeConnections,
                 connectionCounter, timers, fired, last>>

\* part_000, one run of the setInterval callback of connection res.
keepAlive(res, now) ==
  /\ variant = "part_000"
  /\ res \in timers
  /\ chan' = IF MapHas(activeConnections, StringVal(KeyOf(res)))
             THEN [chan EXCEPT ![res] = Append(@, DataFrame(PingMessage(now)))]
             ELSE chan
  /\ UNCHANGED <<variant, connections, connectionIdCounter, activeConnections,
                 connectionCounter, timers, fired, last>>

\* A frame is the connected notice of part_000.
IsNotice(frame) ==
  /\ frame.event = "data"
  /\ "type" \in DOMAIN frame.data
  /\ frame.data.type = "connection"

RECURSIVE WrittenUpTo(_)
\* The frames other than connected notices on streams 1..n.
WrittenUpTo(n) ==
  IF n = 0 THEN 0
  ELSE WrittenUpTo(n - 1)
       + Cardinality({i \in 1..Len(chan[n]) : ~IsNotice(chan[n][i])})

\* A ping or a routed message may still be written.
Room == WrittenUpTo(MaxConn) < MaxFrames

\* The requests sent again and again: an add call and a tools/list, with
\* different ids.
RoutedRequests ==
  {[method |-> "tools/call", params |-> Params("add", Arguments(Missing, 1, 4)),
    id |-> NumberVal(7)],
   [method |-> "tools/list", params |-> NoParams, id |-> StringVal(<<"a">>)]}

\* The connectionId of those requests: none, or an id assigned so far.
RoutedIds == ConnectionIds \ {StringVal(<<>>), StringVal(NeverAssigned)}

\* The reading of Date.now() when all of a behaviour falls in one millisecond.
Instant == {MaxTime}

\* The streams alone: they open at any time, their intervals run, and they
\* end by close, by aborted, or by both.
NextStreams ==
  \/ handleSSE
  \/ \E res \in Streams : close(res)
  \/ Room /\ \E res \in Streams : pingInterval(res)
  \/ \E now \in Clock : handleSSEPart000(now)
  \/ \E res \in Streams, event \in {"close", "aborted"} : cleanup(res, event)
  \/ Room /\ \E res \in Streams, now \in Instant : keepAlive(res, now)

SpecStreams == Init /\ [][NextStreams]_vars

\* The streams of one millisecond under Node's timers: an interval that
\* stays active keeps being run by the event loop.
NextTimers ==
  \/ handleSSE
  \/ \E res \in Streams : close(res)
  \/ Room /\ \E res \in Streams : pingInterval(res)
  \/ \E now \in Instant : handleSSEPart000(now)
  \/ \E res \in Streams, event \in {"close", "aborted"} : cleanup(res, event)
  \/ Room /\ \E res \in Streams, now \in Instant : keepAlive(res, now)

SpecTimers ==
  /\ Init /\ [][NextTimers]_vars
  /\ \A res \in Streams :
       /\ WF_vars(Room /\ pingInterval(res))
       /\ WF_vars(Room /\ \E now \in Instant : keepAlive(res, now))

\* The server with its traffic, within one millisecond: streams open, their
\* intervals run, they end by close, and requests arrive on every route.
Next ==
  \/ handleSSE
  \/ \E res \in Streams : close(res)
  \/ Room /\ \E res \in Streams : pingInterval(res)
  \/ \E now \in Instant : handleSSEPart000(now)
  \/ \E res \in Streams : cleanup(res, "close")
  \/ Room /\ \E res \in Streams, now \in Instant : keepAlive(res, now)
  \/ \E req \in RoutedRequests : PostHTTP(req)
  \/ \E req \in RoutedRequests : PostMCP(req)
  \/ \E req \in RoutedRequests : PostMCPRules(req)
  \/ Room /\ \E req \in RoutedRequests, connectionId \in RoutedIds :
       PostMessage(req, connectionId)
  \/ Room /\ \E req \in RoutedRequests, connectionId \in RoutedIds, now \in Instant :
       PostMessagePart000(req, connectionId, now)

Spec == Init /\ [][Next]_vars

\* =========================================================== claims
SyncHandlers == {"handleHTTPRequest", "handleMCP", "handleMCPRules"}
StreamHandlers == {"handleSSEMessage", "handleSSEMessagePart000"}

\* The Map of the loaded routes/sse module and the ids registered in it.
Registry == IF variant = "sse.ts" THEN connections ELSE activeConnections
RegisteredIds == {Registry[i].id : i \in 1..Len(Registry)}

\* The connection the latest routed message was meant for is registered: the
\* one its connectionId names, or any at all when it names none.
TargetRegistered ==
  IF Truthy(last.connectionId)
  THEN last.connectionId.t = "string" /\ last.connectionId.s \in RegisteredIds
  ELSE Registry # <<>>

\* The latest POST reached the dispatch code.
Dispatched ==
  \/ last.handler \in SyncHandlers
  \/ last.handler \in StreamHandlers /\ TargetRegistered

\* The response to the latest request: the message pushed down the stream if
\* one was pushed, else the body written to the request itself.
Answer == IF last.pushes # <<>> THEN last.pushes[1].frame.data ELSE last.body

HasResult(r) == "result" \in DOMAIN r
HasError(r) == "error" \in DOMAIN r
IsRpcError(r, code) ==
  /\ HasError(r) /\ ~HasResult(r)
  /\ DOMAIN r.error = {"code", "message"}
  /\ r.error.code = code

\* A tools/call whose params are missing, or whose arguments are missing
\* for add or calculate.
MissingOperands(req) ==
  /\ req.method = "tools/call"
  /\ \/ ~req.params.present
     \/ req.params.name \in {"add", "calculate"} /\ ~req.params.arguments.present

UnknownMethod(req) ==
  req.method \notin {"initialize", "initialized", "tools/list", "tools/call"}
UnknownTool(req) ==
  /\ req.method = "tools/call" /\ req.params.present
  /\ req.params.name \notin {"add", "calculate"}
UnknownOperation(req) ==
  /\ req.method = "tools/call" /\ req.params.present
  /\ req.params.name = "calculate" /\ req.params.arguments.present
  /\ req.params.arguments.operation \notin {"add", "subtract", "multiply", "divide"}

\* C1: whenever a request carrying an id (a string, a number, null) was
\* dispatched by any handler, the response written or pushed carries an id
\* equal to the request's.
C1_ResponseIdIsRequestId ==
  (Dispatched /\ last.req.id.t # "undefined")
    => ("id" \in DOMAIN Answer /\ Answer.id = last.req.id)

\* C2: every response a handler produced has exactly one of result and
\* error, and an error is an object with a code and a message.
C2_ExactlyOneOfResultAndError ==
  Dispatched =>
    /\ HasResult(Answer) # HasError(Answer)
    /\ HasError(Answer) => DOMAIN Answer.error = {"code", "message"}

\* C3: a request whose handling faults (missing params or arguments) gets a
\* JSON-RPC error -32603 with the generic message, pushed down the target
\* stream on the streaming transport.
C3_FaultBecomesInternalError ==
  (Dispatched /\ MissingOperands(last.req)) =>
    /\ IsRpcError(Answer, -32603)
    /\ Answer.error.message = "Internal server error"
    /\ last.handler \in StreamHandlers => Len(last.pushes) = 1

\* C4: a request whose method is not initialize, initialized, tools/list or
\* tools/call (or is absent) is answered by a JSON-RPC error -32601.
C4_UnknownMethodIsMethodNotFound ==
  (Dispatched /\ UnknownMethod(last.req)) => IsRpcError(Answer, -32601)

\* C5: a tools/call naming an unknown tool, or calculate with an unknown
\* operation, is answered by a JSON-RPC error -32602.
C5_UnknownToolOrOperationIsInvalidParams ==
  (Dispatched /\ (UnknownTool(last.req) \/ UnknownOperation(last.req)))
    => IsRpcError(Answer, -32602)

\* C6: on the synchronous handlers handleMCP and handleHTTPRequest a
\* protocol error is written with a success status, as a JSON-RPC error with
\* the fixed code.
C6_ProtocolErrorHasSuccessStatus ==
  (/\ last.handler \in {"handleMCP", "handleHTTPRequest"}
   /\ UnknownMethod(last.req) \/ UnknownTool(last.req) \/ UnknownOperation(last.req))
    => /\ last.status = 200
       /\ IsRpcError(last.body, IF UnknownMethod(last.req) THEN -32601 ELSE -32602)

\* A calculate call with both operands and the operation divide by zero.
DivideByZero(req) ==
  /\ req.method = "tools/call" /\ req.params.present
  /\ req.params.name = "calculate" /\ req.params.arguments.present
  /\ req.params.arguments.operation = "divide"
  /\ req.params.arguments.b = 0

\* C7: a divide by zero is answered, by every handler, with a result field
\* holding one text block that says so, with no error field, and without
\* evaluating a quotient.
C7_DivideByZeroIsResult ==
  (Dispatched /\ DivideByZero(last.req)) =>
    /\ HasResult(Answer) /\ ~HasError(Answer)
    /\ Answer.result = Content(DivideByZeroText)
    /\ last.computed = "none"

\* The tool call result of a response: its result field, or the body itself
\* where the handler writes the bare tool result.
ToolResult(r) == IF HasResult(r) THEN r.result ELSE r

\* An add call, or a calculate call with one of the four operations and a
\* divisor that is not zero, both operands given.
Arithmetic(req) ==
  /\ req.method = "tools/call" /\ req.params.present /\ req.params.arguments.present
  /\ \/ req.params.name = "add"
     \/ /\ req.params.name = "calculate"
        /\ req.params.arguments.operation \in {"add", "subtract", "multiply", "divide"}
        /\ ~DivideByZero(req)

\* The value the request asks for, in hundredths, from the integers sent.
Expected(req) ==
  LET x == req.params.arguments.a \div 100
      y == req.params.arguments.b \div 100
      operation == IF req.params.name = "add" THEN "add"
                   ELSE req.params.arguments.operation
  IN CASE operation = "add" -> 100 * (x + y)
       [] operation = "subtract" -> 100 * (x - y)
       [] operation = "multiply" -> 100 * (x * y)
       [] operation = "divide" -> CHOOSE q \in -400..400 : q * y = 100 * x

\* The text of the only content block of the latest tool call result.
ResultText == ToolResult(Answer).content[1].text

\* C8: add returns one text block holding the string form of a + b, and
\* calculate the string form of a + b, a - b, a * b or a / b (b # 0), from
\* every handler; multiply 4, 7 gives "28".
C8_ResultTextIsStringOfValue ==
  (Dispatched /\ Arithmetic(last.req)) =>
    LET args == last.req.params.arguments
        operation == args.operation
    IN /\ ~HasError(Answer)
       /\ Len(ToolResult(Answer).content) = 1
       /\ ToolResult(Answer).content[1].type = "text"
       /\ ResultText = String(Expected(last.req))
       /\ (operation = "multiply" /\ args.a = 400 /\ args.b = 700)
            => ResultText = <<"2", "8">>
       /\ (operation = "divide" /\ args.a = 100 /\ args.b = 400)
            => ResultText = <<"0", ".", "2", "5">>
       /\ (operation = "subtract" /\ args.a = -200 /\ args.b = 400)
            => ResultText = <<"-", "6">>

\* C8 witness: handleMCP answered calculate divide 1, -2 with "-0.5".
C8_Witness ==
  /\ last.handler = "handleMCP"
  /\ Arithmetic(last.req)
  /\ last.computed = "divide"
  /\ ResultText = <<"-", "0", ".", "5">>

\* The stream the latest routed message was meant for.
TargetStream ==
  LET id == IF Truthy(last.connectionId) THEN last.connectionId.s
            ELSE Registry[Len(Registry)].id
  IN (CHOOSE i \in 1..Len(Registry) : Registry[i].id = id)

\* C9: every message routed while its target connection is registered has
\* exactly one dispatch result pushed to the target stream, and the request
\* gets a success acknowledgment that is not the dispatch result.
C9_OnePushAndAnAcknowledgment ==
  (last.handler \in StreamHandlers /\ TargetRegistered) =>
    /\ Len(last.pushes) = 1
    /\ last.pushes[1].res = Registry[TargetStream].res
    /\ last.status = 200
    /\ DOMAIN last.body = {"status"}

\* Every frame on every stream is a connected notice: nothing was pushed
\* since the streams were opened.
NothingPushed ==
  \A res \in Streams : \A i \in 1..Len(chan[res]) :
    /\ chan[res][i].event = "data"
    /\ "type" \in DOMAIN chan[res][i].data
    /\ chan[res][i].data.type = "connection"

\* C10: a message routed to an id that is not registered (never assigned, or
\* closed), or routed without an id while no connection is registered, gets
\* a 4xx error and no stream receives anything.
C10_NoConnectionIsNotFound ==
  (last.handler \in StreamHandlers /\ ~TargetRegistered) =>
    /\ last.status \in 400..499
    /\ HasError(last.body)
    /\ last.pushes = <<>>
    /\ NothingPushed

\* The id that was assigned to stream res.
AssignedId(res) == IF variant = "sse.ts" THEN ConnectionKey(res) ELSE KeyOf(res)

\* C10 witness: a message named a connection that had been closed, while
\* another connection was open, and got the 400.
C10_Witness ==
  /\ last.handler \in StreamHandlers
  /\ last.status = 400
  /\ Registry # <<>>
  /\ \E res \in Streams :
       /\ <<res, "close">> \in fired
       /\ last.connectionId = StringVal(AssignedId(res))

\* ------------------------------------------------------- the registry
\* The streams opened so far, and those whose connection is registered.
Opened == IF variant = "sse.ts" THEN connectionIdCounter ELSE connectionCounter
RegisteredStreams == {Registry[i].res : i \in 1..Len(Registry)}

\* The registered connection that was opened last: streams are numbered in
\* the order they open.
LatestRegistered ==
  CHOOSE res \in RegisteredStreams : \A other \in RegisteredStreams : other <= res

\* Every stream the latest routed message was pushed to is res.
PushedOnlyTo(res) == \A i \in 1..Len(last.pushes) : last.pushes[i].res = res

\* C11: a message routed without a connectionId while connections are
\* registered is pushed to the one opened last among those registered now,
\* whatever streams were opened and closed before, and to no other.
C11_NoIdGoesToLatestRegistered ==
  (last.handler \in StreamHandlers /\ ~Truthy(last.connectionId) /\ Registry # <<>>)
    => /\ PushedOnlyTo(LatestRegistered)
       /\ ~MissingOperands(last.req) => Len(last.pushes) = 1

\* C11 witness: streams 1 and 2 opened, 2 closed, and a message without a
\* connectionId was pushed to stream 1.
C11_Witness ==
  /\ last.handler \in StreamHandlers
  /\ last.connectionId = Undefined
  /\ <<2, "close">> \in fired
  /\ Len(last.pushes) = 1
  /\ last.pushes[1].res = 1

\* C12: a stream is registered under its assigned id from its opening until
\* its close; a message routed with that id is pushed to that stream and no
\* other while it is registered, and gets the not-found answer once it is
\* unregistered.
C12_AssignedIdRoundTrip ==
  \A res \in 1..Opened :
    LET id == StringVal(AssignedId(res))
    IN /\ (res \in RegisteredStreams) <=> (<<res, "close">> \notin fired)
       /\ MapHas(Registry, id) <=> (res \in RegisteredStreams)
       /\ MapHas(Registry, id) => MapGet(Registry, id).res = res
       /\ (last.handler \in StreamHandlers /\ last.connectionId = id) =>
            IF res \in RegisteredStreams
            THEN /\ PushedOnlyTo(res)
                 /\ ~MissingOperands(last.req) => Len(last.pushes) = 1
            ELSE /\ last.status = 400
                 /\ HasError(last.body)
                 /\ last.pushes = <<>>

\* C12 witness: with streams 1 and 2 registered, a message naming the id of
\* stream 1 was pushed to stream 1.
C12_Witness ==
  /\ last.handler \in StreamHandlers
  /\ RegisteredStreams = {1, 2}
  /\ last.connectionId = StringVal(AssignedId(1))
  /\ Len(last.pushes) = 1
  /\ last.pushes[1].res = 1

\* The listener of event ran for stream res in this step.
Ran(res, event) == <<res, event>> \in fired' /\ <<res, event>> \notin fired

\* C13: a run of the close/cleanup listener of a connection whose id is no
\* longer registered leaves the registry, entries and order, and the timers
\* of the other connections as they were.
C13_UnregisterTwiceChangesNothing ==
  [][\A res \in Streams, event \in {"close", "aborted"} :
       (Ran(res, event) /\ ~MapHas(Registry, StringVal(AssignedId(res))))
         => (Registry' = Registry /\ timers' = timers)]_vars

\* C13 witness: both events of stream 1 ran its cleanup while stream 2 stayed
\* registered.
C13_Witness ==
  /\ <<1, "close">> \in fired
  /\ <<1, "aborted">> \in fired
  /\ RegisteredStreams = {2}
  /\ timers = {2}

\* C14: for each connection the body of the close transition (clear the
\* interval, delete the entry) has run at most once, whichever events fired.
C14_CleanupRunsOncePerConnection ==
  \A res \in Streams : Cardinality({e \in fired : e[1] = res}) <= 1

\* C15: the ids assigned so far, to open and to closed streams, are pairwise
\* different; the registry holds one entry per id, under the id assigned to
\* its stream, and every stream that has not ended is still in it.
C15_IdsAreNeverReused ==
  /\ \A i, j \in 1..Opened : AssignedId(i) = AssignedId(j) => i = j
  /\ \A i, j \in 1..Len(Registry) : Registry[i].id = Registry[j].id => i = j
  /\ \A i \in 1..Len(Registry) : Registry[i].id = AssignedId(Registry[i].res)
  /\ RegisteredStreams = {res \in 1..Opened : \A e \in fired : e[1] # res}

\* C15 witness: part_000 opened two streams in the same millisecond, the
\* first has closed and the second is registered.
C15_Witness ==
  /\ variant = "part_000"
  /\ connectionCounter = 2
  /\ <<1, "close">> \in fired
  /\ RegisteredStreams = {2}
  /\ KeyOf(1) = ConnectionKeyPart000(1, 1)
  /\ KeyOf(2) = ConnectionKeyPart000(2, 1)

\* C16: every opened stream has a connected notice as its first frame, and
\* the notice carries the id the stream is registered under: nothing, ping
\* or dispatch result, comes before it.
C16_ConnectedNoticeComesFirst ==
  \A res \in 1..Opened :
    /\ chan[res] # <<>>
    /\ IsNotice(chan[res][1])
    /\ chan[res][1].data.status = "connected"
    /\ \A i \in 1..Len(Registry) :
         Registry[i].res = res => chan[res][1].data.connectionId = StringVal(Registry[i].id)

\* A frame is a keep-alive ping of either module.
IsPing(frame) ==
  \/ frame = PingComment
  \/ /\ frame.event = "data"
     /\ "type" \in DOMAIN frame.data
     /\ frame.data.type = "ping"

\* A ping was written to stream res in this step.
Pinged(res) ==
  /\ Len(chan'[res]) = Len(chan[res]) + 1
  /\ IsPing(chan'[res][Len(chan'[res])])

\* C17: the intervals that are active are exactly those of the registered
\* connections, in every interleaving of interval runs and close events: a
\* ping is written only to a stream whose connection is registered, and the
\* close of one connection leaves the interval of every other as it was.
C17_TimerStopsWithUnregistration ==
  /\ [](timers = RegisteredStreams)
  /\ [][\A res \in Streams : Pinged(res) => res \in RegisteredStreams]_vars
  /\ [][\A res \in Streams, event \in {"close", "aborted"} :
          Ran(res, event) => timers' = timers \ {res}]_vars

\* C17 witness: stream 1 was pinged and then closed; stream 2 is registered,
\* its interval is still active and has written a ping.
C17_Witness ==
  /\ <<1, "close">> \in fired
  /\ \E i \in 1..Len(chan[1]) : IsPing(chan[1][i])
  /\ timers = {2}
  /\ RegisteredStreams = {2}
  /\ chan[2] # <<>>
  /\ IsPing(chan[2][Len(chan[2])])

\* A frame is a dispatch result: neither a ping nor a connected notice.
IsResult(frame) == ~IsPing(frame) /\ ~IsNotice(frame)

\* C18: a stream is only ever appended to, one frame a step, and a dispatch
\* result is appended in the step that handles its message, to that message's
\* target; so the results on one stream stand in the order in which their
\* messages were handled, whatever pings and messages to other streams come
\* in between.
C18_ResultsInHandlingOrder ==
  [][\A res \in Streams :
       /\ Len(chan'[res]) \in {Len(chan[res]), Len(chan[res]) + 1}
       /\ SubSeq(chan'[res], 1, Len(chan[res])) = chan[res]
       /\ (Len(chan'[res]) > Len(chan[res]) /\ IsResult(chan'[res][Len(chan'[res])]))
            => /\ last'.handler \in StreamHandlers
               /\ last'.pushes = Push(res, chan'[res][Len(chan'[res])])
               /\ Registry = Registry'
               /\ res = Registry[TargetStream'].res]_vars

\* C18 witness: on the stream of routes/sse.ts the result of request 7, a
\* ping, and the result of request "a", handled last, in that order.
C18_Witness ==
  /\ variant = "sse.ts"
  /\ Len(chan[1]) = 3
  /\ IsResult(chan[1][1]) /\ chan[1][1].data.id = NumberVal(7)
  /\ IsPing(chan[1][2])
  /\ IsResult(chan[1][3]) /\ chan[1][3].data.id = StringVal(<<"a">>)
  /\ last.handler = "handleSSEMessage"
  /\ last.req.id = StringVal(<<"a">>)

\* C19: an open appends the entry of the new stream and a close removes the
\* entry of its own stream, both leaving the other entries and their order;
\* every other step (a routed message with or without a target, a request on
\* a synchronous route, an interval run) leaves the registry as it was.
C19_RegistryChangesOnOpenAndCloseOnly ==
  [][/\ (Opened' = Opened /\ fired' = fired) => Registry' = Registry
     /\ \A res \in Streams :
          (Opened' = res /\ Opened = res - 1) =>
             /\ Len(Registry') = Len(Registry) + 1
             /\ SubSeq(Registry', 1, Len(Registry)) = Registry
             /\ Registry'[Len(Registry')].res = res
     /\ \A res \in Streams, event \in {"close", "aborted"} :
          Ran(res, event) =>
             Registry' = SelectSeq(Registry, LAMBDA e : e.res # res)]_vars

\* C19 witness: stream 1 is registered and has received a ping and a result,
\* stream 2 was opened and closed, and the latest request came on a
\* synchronous route.
C19_Witness ==
  /\ RegisteredStreams = {1}
  /\ <<2, "close">> \in fired
  /\ \E i \in 1..Len(chan[1]) : IsPing(chan[1][i])
  /\ \E i \in 1..Len(chan[1]) : IsResult(chan[1][i])
  /\ last.handler \in SyncHandlers

\* C20: the message handleSSEMessage pushes for a request is the body each
\* synchronous JSON-RPC handler (handleHTTPRequest, the handleMCP listed in
\* .cursorrules) writes for the same request, faulting requests and the
\* capabilities of initialize included.
C20_TransportsAnswerAlike ==
  (last.handler = "handleSSEMessage" /\ TargetRegistered) =>
    /\ Len(last.pushes) = 1
    /\ last.pushes[1].frame.data = handleHTTPRequest(last.req).body
    /\ last.pushes[1].frame.data = handleMCPRules(last.req).body

\* The pings written to stream res so far.
Pings(res) == Cardinality({i \in 1..Len(chan[res]) : IsPing(chan[res][i])})

\* C21: a connection is registered exactly while its interval is active, and
\* with the event loop running the intervals a registered connection gets one
\* more ping, again and again, unless it is closed (or the streams have taken
\* all the frames of one behaviour).
C21_RegisteredConnectionKeepsBeingPinged ==
  /\ [](timers = RegisteredStreams)
  /\ \A res \in Streams, k \in 0..MaxFrames :
       (res \in timers /\ Pings(res) = k /\ Room)
         ~> (Pings(res) > k \/ res \notin RegisteredStreams \/ ~Room)

\* C21 witness: stream 1 is registered, was never closed, and every frame
\* written in the behaviour is a ping on it.
C21_Witness ==
  /\ 1 \in RegisteredStreams
  /\ 1 \in timers
  /\ fired = {}
  /\ Pings(1) = MaxFrames

\* The connection a message without a connectionId would go to now.
FallbackTarget ==
  IF variant = "sse.ts" THEN targetId(Undefined, connections)
  ELSE targetConnectionId(Undefined, activeConnections)

\* A dispatch result was appended to stream res in this step.
ResultAppended(res) ==
  /\ Len(chan'[res]) = Len(chan[res]) + 1
  /\ IsResult(chan'[res][Len(chan'[res])])

\* C22: a step that opens and closes nothing (a routed message, with an id
\* or without, a ping, a synchronous request) leaves the fallback target as
\* it was, and a message without a connectionId goes to the registered
\* connection opened last, however the connections were used before.
C22_FallbackIgnoresUse ==
  [][/\ (Opened' = Opened /\ fired' = fired) => FallbackTarget' = FallbackTarget
     /\ \A res \in Streams :
          (ResultAppended(res) /\ ~Truthy(last'.connectionId))
            => (res = LatestRegistered /\ FallbackTarget = StringVal(AssignedId(res)))]_vars

\* C22 witness: with both streams registered, stream 1 took two results and
\* the latest message, sent without a connectionId, still went to stream 2.
C22_Witness ==
  /\ variant = "sse.ts"
  /\ RegisteredStreams = {1, 2}
  /\ Len(chan[1]) = 2 /\ IsResult(chan[1][1]) /\ IsResult(chan[1][2])
  /\ last.handler = "handleSSEMessage"
  /\ last.connectionId = Undefined
  /\ Len(chan[2]) = 1
  /\ last.pushes = Push(2, chan[2][1])

\* A registry other than the one the latest request met: one connection.
OneConnection == <<[id |-> ConnectionKey(1), res |-> 1]>>

\* The handler of the latest request run again on that request at time now,
\* with the registry OneConnection and no connectionId.
Rerun(now) ==
  CASE last.handler = "handleHTTPRequest" -> handleHTTPRequest(last.req)
    [] last.handler = "handleMCP" -> handleMCP(last.req)
    [] last.handler = "handleMCPRules" -> handleMCPRules(last.req)
    [] last.handler = "handleSSEMessage" ->
         handleSSEMessage(last.req, Undefined, OneConnection)
    [] last.handler = "handleSSEMessagePart000" ->
         handleSSEMessagePart000(last.req, Undefined, OneConnection, now)

\* The response of a handler run: the pushed message, else the body.
ResponseOf(e) == IF e.pushes # <<>> THEN e.pushes[1].frame.data ELSE e.body

\* C23: the response to a dispatched request is the response its handler
\* gives the same method, params and id at any other time and with another
\* registry.
C23_ResponseDependsOnRequestOnly ==
  Dispatched => \A now \in Clock : ResponseOf(Rerun(now)) = Answer

\* The statuses of the responses the latest handler run wrote to its request.
Responses ==
  CASE last.handler = "handleHTTPRequest" -> responsesHTTP(last.req)
    [] last.handler = "handleMCP" -> responsesMCP(last.req)
    [] last.handler = "handleSSEMessage" ->
         responsesSSE(last.req, last.connectionId, connections)

\* C24: a run of handleHTTPRequest, of handleMCP or of handleSSEMessage
\* writes one response to its request, no more and no fewer, on every path,
\* and that response is the one the request received.
C24_ExactlyOneResponse ==
  last.handler \in {"handleHTTPRequest", "handleMCP", "handleSSEMessage"} =>
    /\ Len(Responses) = 1
    /\ Responses[1] = last.status
    /\ last.body # NoBody

\* C24 witness: handleSSEMessage replied once to a divide by zero carrying
\* id null, the branch that replies inside the switch.
C24_Witness ==
  /\ last.handler = "handleSSEMessage"
  /\ DivideByZero(last.req)
  /\ last.req.id = Null
  /\ Responses = <<200>>
  /\ Len(last.pushes) = 1

\* The writes of the latest run of a streaming handler, in order.
Steps ==
  IF last.handler = "handleSSEMessage"
  THEN stepsSSE(last.req, last.connectionId, connections)
  ELSE stepsPart000(last.req, last.connectionId, activeConnections)

\* C25: in both handleSSEMessage variants a request is acknowledged with 200
\* only after one message was pushed, to its target and standing last on that
\* stream, and a request that got 400 or 500 pushed nothing to any stream.
C25_AcknowledgmentAgreesWithPush ==
  last.handler \in StreamHandlers =>
    /\ last.status \in {200, 400, 500}
    /\ last.status = 200 =>
         /\ Steps = <<"push", "reply 200">>
         /\ Len(last.pushes) = 1
         /\ last.pushes[1].res = Registry[TargetStream].res
         /\ chan[last.pushes[1].res] # <<>>
         /\ chan[last.pushes[1].res][Len(chan[last.pushes[1].res])] = last.pushes[1].frame
         /\ DOMAIN last.body = {"status"}
    /\ last.status # 200 =>
         /\ Steps \in {<<"reply 400">>, <<"reply 500">>}
         /\ last.pushes = <<>>
         /\ NothingPushed
         /\ HasError(last.body)

\* C25 witness: a faulting request to a registered connection got the 500
\* and no stream received anything.
C25_Witness ==
  /\ last.handler \in StreamHandlers
  /\ TargetRegistered
  /\ last.status = 500
  /\ Registry # <<>>
  /\ NothingPushed

\* C26: a result pushed for a message that names a connectionId goes to the
\* stream that id was assigned to, whether or not it is the latest, and the
\* step leaves what every other stream holds as it was.
C26_ExplicitIdReachesItsStreamOnly ==
  [][\A res \in Streams :
       (ResultAppended(res) /\ Truthy(last'.connectionId))
         => /\ last'.connectionId = StringVal(AssignedId(res))
            /\ res \in RegisteredStreams
            /\ \A other \in Streams \ {res} : chan'[other] = chan[other]]_vars

\* C26 witness: both streams registered, stream 2 holding one ping; a message
\* naming the id of stream 1, which is not the latest, was pushed to stream 1.
C26_Witness ==
  /\ variant = "sse.ts"
  /\ RegisteredStreams = {1, 2}
  /\ last.handler = "handleSSEMessage"
  /\ last.connectionId = StringVal(AssignedId(1))
  /\ Len(last.pushes) = 1 /\ last.pushes[1].res = 1
  /\ chan[1] # <<>> /\ chan[1][Len(chan[1])] = last.pushes[1].frame
  /\ chan[2] = <<PingComment>>

\* The close of stream res has been handled.
Closed(res) == \E e \in fired : e[1] = res

\* C27: a connection whose close has been handled is not registered, now or
\* after any later step, and no later step (an open, a routed message with
\* its id, with another or with none, an interval run) writes a ping or a
\* dispatch result to its stream.
C27_ClosedIsTerminal ==
  /\ [](\A res \in Streams : Closed(res) => res \notin RegisteredStreams)
  /\ [][\A res \in Streams :
          Closed(res) => /\ Closed(res)'
                         /\ res \notin RegisteredStreams'
                         /\ chan'[res] = chan[res]]_vars

\* C27 witness: stream 1 took a result and closed; afterwards stream 2 was
\* opened and a message naming the id of stream 1 got the 400.
C27_Witness ==
  /\ <<1, "close">> \in fired
  /\ chan[1] # <<>> /\ IsResult(chan[1][Len(chan[1])])
  /\ RegisteredStreams = {2}
  /\ last.handler \in StreamHandlers
  /\ last.connectionId = StringVal(AssignedId(1))
  /\ last.status = 400

====
